---- MODULE Spec2Model ----
(***************************************************************************)
(* Model of the portfolio page scripts: src/script.js and its sibling      *)
(* variant src/unnamed/part_000.                                           *)
(*                                                                         *)
(*   - the rate-limit wrappers debounce and throttle, driven by an         *)
(*     arbitrary caller and by the browser's timer queue (SpecDebounce,    *)
(*     SpecThrottle, and SpecThrottleFair where due timers are run);       *)
(*   - the page: init(), the reveal observer (SpecReveal), the throttled   *)
(*     scroll handlers (SpecScroll), the contact form (SpecForm), the      *)
(*     mobile menu and the anchor links (SpecMenu), driven by DOM events;  *)
(*   - a script.js page and a part_000 page given the same scroll events   *)
(*     (SpecTwin).                                                         *)
(*                                                                         *)
(* Time is abstract: a timer set with setTimeout is pending until the      *)
(* event loop runs it, and any event may be dispatched while it is         *)
(* pending.  This covers every delay >= 0, since a timer callback never    *)
(* runs inside the task that scheduled it.                                 *)
(***************************************************************************)
EXTENDS Integers, Sequences, FiniteSets

\* ------------------------------------------------------------------ bounds
\* wrapper calls made on each generic wrapper
MaxCalls == 3
\* reset timers of one throttled wrapper that may be pending at once
MaxCooldowns == 2
\* elements matched by '.service-card, .about-content, .contact-item'
NumAnimated == 2
\* entries delivered to one IntersectionObserver callback
MaxEntries == 2
\* submits of the contact form whose feedback timers are pending at once
MaxSubmits == 2

\* --------------------------------------------------------------- constants
NavbarThreshold == 50
ScrollTopThreshold == 300

\* ------------------------------------------------------------- input sets
Args == {"a1", "a2"}
Ctxs == {"ctx1", "ctx2"}
\* `this` of a function called as a plain call f(...)
DefaultThis == "undefined"
Offsets == {0, 50, 60, 250, 300, 320}
Files == {"script.js", "part_000"}
ElementIds == {"navbar", "hamburger", "nav-menu", "scrollTop", "contact-form", "year"}
\* the page has every expected element, or lacks exactly one of them
Pages == {ElementIds} \cup {ElementIds \ {e} : e \in ElementIds}
AnimatedElements == 1..NumAnimated
\* href of a clicked link: an existing target, a missing target, the bare
\* '#', and a link to another page
Hrefs == {"#about", "#missing", "#", "page.html"}
\* offsetTop of the section '#about', and navbar.offsetHeight (layout)
OffsetTops == {0, 400}
NavbarHeights == {60, 70}
Keys == {"Escape", "Tab"}
ThrottledFns == {"fn", "handleNavbarScroll", "handleScrollTopVisibility",
                 "handleScrollEffects"}

VARIABLES
    \* debounce(fn, wait): the closure variable `timeout`, the timers it has
    \* pending, and the trace of the wrapper
    timeout, dbTimers, dbTrace,
    \* throttle(fn, limit): the closure variable `inThrottle` and the number
    \* of pending reset timers of each wrapper; the trace of the generic one
    inThrottle, cooldowns, thTrace,
    \* the page: which file it loads, the expected elements it has, whether
    \* init() has run
    file, present, initialized,
    \* window.pageYOffset, lastScrollTop, and the classes 'scrolled' of the
    \* navbar and 'visible' of the scroll-top control
    pageYOffset, lastScrollTop, navbarScrolled, scrollTopVisible,
    \* a second page that loads part_000 and gets the scroll events of the
    \* script.js page: its two classes, the wrappers of both pages that
    \* accepted the last scroll event, and whether every scroll event so
    \* far found handleNavbarScroll and handleScrollTopVisibility in the
    \* same phase
    twin,
    \* the submit button of the contact form (innerHTML, disabled) and the
    \* originalText held by its pending 1000 ms and 2000 ms timers
    button, feedback,
    \* the mobile menu: 'active' on hamburger and nav-menu, aria-expanded,
    \* document.body.style.overflow
    menu,
    \* inline style of the animated elements, targets of animateOnScroll
    style, observed,
    \* textContent of the year placeholder
    yearText,
    \* the DOM event dispatched last (with the menu it found), and what its
    \* listeners did: window.scrollTo request, preventDefault, errors raised
    lastEvent, scrollRequest, defaultPrevented, raised

debounceVars == <<timeout, dbTimers, dbTrace>>
throttleVars == <<inThrottle, cooldowns>>
scrollVars == <<pageYOffset, lastScrollTop, navbarScrolled, scrollTopVisible,
                twin>>
formVars == <<button, feedback>>
revealVars == <<style, observed>>
eventVars == <<lastEvent, scrollRequest, defaultPrevented, raised>>
pageVars == <<file, present, initialized, scrollVars, formVars, menu,
              revealVars, yearText, eventVars>>
vars == <<debounceVars, throttleVars, thTrace, pageVars>>

\* ------------------------------------------------------------- javascript
\* !v for the values a throttle flag takes
Falsy(v) == v \in {"undefined", "false"}
\* String(b), as setAttribute stores a boolean
JsString(b) == IF b THEN "true" ELSE "false"
StartsWithHash(href) == href \in {"#about", "#missing", "#"}
Last(s) == s[Len(s)]

\* ---------------------------------------------------------------- traces
\* What a caller of a wrapper can observe: its own calls ("call"), the
\* invocations of the wrapped function ("fn") and, for throttle, the expiry
\* of a cooldown ("reset").
CallEv(ctx, a) == [ev |-> "call", this |-> ctx, args |-> a, threw |-> FALSE]
FnEv(ctx, a, threw) == [ev |-> "fn", this |-> ctx, args |-> a, threw |-> threw]
ResetEv == [ev |-> "reset", this |-> DefaultThis, args |-> "a1", threw |-> FALSE]
NumCalls(tr) == Cardinality({i \in 1..Len(tr) : tr[i].ev = "call"})

\* --------------------------------------------------------------- debounce
\* clearTimeout(handle) on a timer queue; an id that is not pending (also
\* the initial undefined, 0) clears nothing
ClearTimeout(queue, handle) == {t \in queue : t.id # handle}

\* executedFunction: clearTimeout(timeout); timeout = setTimeout(later, wait)
DebounceScheduleNoClear(queue, handle, timer) == queue \cup {timer}
DebounceSchedule(queue, handle, timer) == ClearTimeout(queue, handle) \cup {timer}

\* later: func(...args) is a plain call, the wrapper's `this` is not passed
DebounceThis(ctx) == DefaultThis

DebounceCall(ctx, a) ==
    /\ NumCalls(dbTrace) < MaxCalls
    /\ LET id == NumCalls(dbTrace) + 1
       IN /\ dbTimers' = DebounceSchedule(dbTimers, timeout,
                                          [id |-> id, this |-> ctx, args |-> a])
          /\ timeout' = id
    /\ dbTrace' = Append(dbTrace, CallEv(ctx, a))
    /\ UNCHANGED <<thTrace, throttleVars, pageVars>>

\* the event loop runs a pending `later`
DebounceTimerFires(t) ==
    /\ t \in dbTimers
    /\ dbTimers' = ClearTimeout(dbTimers \ {t}, timeout)
    /\ dbTrace' = Append(dbTrace, FnEv(DebounceThis(t.this), t.args, FALSE))
    /\ UNCHANGED <<timeout, thTrace, throttleVars, pageVars>>

\* --------------------------------------------------------------- throttle
\* if (!inThrottle)
ThrottleAccepts(flag) == Falsy(flag)

\* func.apply(this, args); inThrottle = true  (skipped when func throws)
ThrottleFlagAfterUnset(flag, threw) == flag
ThrottleFlagAfter(flag, threw) == IF threw THEN flag ELSE "true"

\* setTimeout(() => inThrottle = false, limit)  (skipped when func throws)
ThrottleCooldownsAfterNoTimer(n, threw) == n
ThrottleCooldownsAfter(n, threw) == IF threw THEN n ELSE n + 1

\* func.apply(this, args)
ThrottleThis(ctx) == ctx

\* () => inThrottle = false
ThrottleFlagOnTimer == "false"

ThrottleCall(ctx, a, throws) ==
    /\ NumCalls(thTrace) < MaxCalls
    /\ cooldowns["fn"] < MaxCooldowns
    /\ IF ThrottleAccepts(inThrottle["fn"])
       THEN /\ thTrace' = thTrace \o <<CallEv(ctx, a), FnEv(ThrottleThis(ctx), a, throws)>>
            /\ inThrottle' = [inThrottle EXCEPT !["fn"] = ThrottleFlagAfter(@, throws)]
            /\ cooldowns' = [cooldowns EXCEPT !["fn"] = ThrottleCooldownsAfter(@, throws)]
       ELSE /\ thTrace' = Append(thTrace, CallEv(ctx, a))
            /\ UNCHANGED throttleVars
    /\ UNCHANGED <<debounceVars, pageVars>>

\* the event loop runs a pending reset timer of wrapper w
CooldownExpiresTrailing(w) ==
    /\ cooldowns[w] > 0
    /\ cooldowns' = [cooldowns EXCEPT ![w] = @ - 1]
    /\ inThrottle' = [inThrottle EXCEPT ![w] = ThrottleFlagOnTimer]
    /\ thTrace' = IF w # "fn" THEN thTrace
                  ELSE IF Last(thTrace).ev = "call"
                  THEN thTrace \o <<ResetEv, FnEv(Last(thTrace).this,
                                                  Last(thTrace).args, FALSE)>>
                  ELSE Append(thTrace, ResetEv)
    /\ UNCHANGED <<debounceVars, pageVars>>

CooldownExpiresShared(w) ==
    /\ cooldowns[w] > 0
    /\ cooldowns' = [cooldowns EXCEPT ![w] = @ - 1]
    /\ inThrottle' = [v \in ThrottledFns |-> ThrottleFlagOnTimer]
    /\ thTrace' = IF w = "fn" THEN Append(thTrace, ResetEv) ELSE thTrace
    /\ UNCHANGED <<debounceVars, pageVars>>

CooldownExpires(w) ==
    /\ cooldowns[w] > 0
    /\ cooldowns' = [cooldowns EXCEPT ![w] = @ - 1]
    /\ inThrottle' = [inThrottle EXCEPT ![w] = ThrottleFlagOnTimer]
    /\ thTrace' = IF w = "fn" THEN Append(thTrace, ResetEv) ELSE thTrace
    /\ UNCHANGED <<debounceVars, pageVars>>

\* ------------------------------------------------------------------ errors
\* reading a property of a null cached element
TypeError(h) == [handler |-> h, error |-> "TypeError"]
\* document.querySelector('#')
SyntaxError(h) == [handler |-> h, error |-> "SyntaxError"]

\* ------------------------------------------------------------- mobile menu
MenuClosed == [hamburgerActive |-> FALSE, navMenuActive |-> FALSE,
               ariaExpanded |-> "false", bodyOverflow |-> ""]
MenuOpen == [hamburgerActive |-> TRUE, navMenuActive |-> TRUE,
             ariaExpanded |-> "true", bodyOverflow |-> "hidden"]
Same(m) == [menu |-> m, threw |-> FALSE]
Thrown(m) == [menu |-> m, threw |-> TRUE]

\* toggleMobileMenu: the statements run in order until one reads a null
ToggleMobileMenuStaleAria(m, els) ==
    IF "hamburger" \notin els THEN Thrown(m)
    ELSE LET isActive == ~m.hamburgerActive
             m1 == [m EXCEPT !.hamburgerActive = isActive]
         IN IF "nav-menu" \notin els THEN Thrown(m1)
            ELSE Same([m1 EXCEPT !.navMenuActive = ~@,
                                 !.ariaExpanded = JsString(m.hamburgerActive),
                                 !.bodyOverflow = IF isActive THEN "hidden" ELSE ""])

ToggleMobileMenu(m, els) ==
    IF "hamburger" \notin els THEN Thrown(m)
    ELSE LET isActive == ~m.hamburgerActive
             m1 == [m EXCEPT !.hamburgerActive = isActive]
         IN IF "nav-menu" \notin els THEN Thrown(m1)
            ELSE Same([m1 EXCEPT !.navMenuActive = ~@,
                                 !.ariaExpanded = JsString(isActive),
                                 !.bodyOverflow = IF isActive THEN "hidden" ELSE ""])

CloseMobileMenuKeepsNavMenu(m, els) ==
    IF "hamburger" \notin els THEN Thrown(m)
    ELSE LET m1 == [m EXCEPT !.hamburgerActive = FALSE]
         IN IF "nav-menu" \notin els THEN Thrown(m1)
            ELSE Same([m1 EXCEPT !.ariaExpanded = "false", !.bodyOverflow = ""])

CloseMobileMenu(m, els) ==
    IF "hamburger" \notin els THEN Thrown(m)
    ELSE LET m1 == [m EXCEPT !.hamburgerActive = FALSE]
         IN IF "nav-menu" \notin els THEN Thrown(m1)
            ELSE Same([m1 EXCEPT !.navMenuActive = FALSE,
                                 !.ariaExpanded = "false",
                                 !.bodyOverflow = ""])

\* the keydown listener of the document
HandleKeyboardNavigation(f, key, m, els) ==
    IF key # "Escape" THEN Same(m)
    ELSE IF f = "part_000" THEN CloseMobileMenu(m, els)
    ELSE IF "nav-menu" \notin els THEN Thrown(m)
    ELSE IF m.navMenuActive THEN CloseMobileMenu(m, els)
    ELSE Same(m)

\* the click listener of the document (script.js only); the target lies
\* inside nav-menu, inside hamburger, or elsewhere
DocumentClickListener(f, m, els, inMenu, inHamburger) ==
    IF f = "part_000" THEN Same(m)
    ELSE IF "nav-menu" \notin els THEN Thrown(m)
    ELSE IF ~(m.navMenuActive /\ ~inMenu) THEN Same(m)
    ELSE IF "hamburger" \notin els THEN Thrown(m)
    ELSE IF inHamburger THEN Same(m)
    ELSE CloseMobileMenu(m, els)

DocumentClickErrors(r) == IF r.threw THEN {TypeError("documentClick")} ELSE {}

\* ------------------------------------------------------------ anchor links
\* the listeners setupEventListeners / init attach to a link
HasScrollListener(f, navLink, href) ==
    navLink \/ (f = "script.js" /\ StartsWithHash(href))

TargetPositionNoNavbar(offsetTop, navbarHeight) == offsetTop
TargetPosition(offsetTop, navbarHeight) == offsetTop - navbarHeight

\* smoothScrollToSection(e): the menu it leaves, the scroll it requests,
\* whether it called e.preventDefault(), the error it raised
SmoothScrollToSection(f, href, offsetTop, navbarHeight, m, els) ==
    LET h == "smoothScrollToSection"
        prevented == f = "script.js" \/ StartsWithHash(href)
        out(m2, req, errs) == [menu |-> m2, scroll |-> req,
                               prevented |-> prevented, errors |-> errs]
    IN IF ~StartsWithHash(href) THEN out(m, <<>>, {})
       ELSE IF href = "#" THEN out(m, <<>>, {SyntaxError(h)})
       ELSE IF href = "#missing" THEN out(m, <<>>, {})
       ELSE IF "navbar" \notin els THEN out(m, <<>>, {TypeError(h)})
       ELSE LET c == CloseMobileMenu(m, els)
            IN out(c.menu, <<TargetPosition(offsetTop, navbarHeight)>>,
                   IF c.threw THEN {TypeError(h)} ELSE {})

\* ------------------------------------------------------------------ reveal
Unstyled == [opacity |-> "", transform |-> "", transition |-> ""]
Pending == [opacity |-> "0", transform |-> "translateY(30px)",
            transition |-> "all 0.6s cubic-bezier(0.4, 0, 0.2, 1)"]
Revealed == [Pending EXCEPT !.opacity = "1", !.transform = "translateY(0)"]

\* the body of entries.forEach in the animateOnScroll callback
RevealEntryRehides(st, obs, entry) ==
    IF entry.isIntersecting
    THEN [style |-> [st EXCEPT ![entry.target].opacity = "1",
                               ![entry.target].transform = "translateY(0)"],
          observed |-> obs \ {entry.target}]
    ELSE [style |-> [st EXCEPT ![entry.target].opacity = "0",
                               ![entry.target].transform = "translateY(30px)"],
          observed |-> obs]

RevealEntryKeepsObserving(st, obs, entry) ==
    IF entry.isIntersecting
    THEN [style |-> [st EXCEPT ![entry.target].opacity = "1",
                               ![entry.target].transform = "translateY(0)"],
          observed |-> obs]
    ELSE [style |-> st, observed |-> obs]

RevealEntry(st, obs, entry) ==
    IF entry.isIntersecting
    THEN [style |-> [st EXCEPT ![entry.target].opacity = "1",
                               ![entry.target].transform = "translateY(0)"],
          observed |-> obs \ {entry.target}]
    ELSE [style |-> st, observed |-> obs]

RECURSIVE RevealEntries(_, _, _)
RevealEntries(st, obs, entries) ==
    IF entries = <<>> THEN [style |-> st, observed |-> obs]
    ELSE LET r == RevealEntry(st, obs, Head(entries))
         IN RevealEntries(r.style, r.observed, Tail(entries))

\* the batches the observer may deliver: entries of targets it observes
Batches(obs) ==
    UNION {[1..n -> [target : obs, isIntersecting : BOOLEAN]] : n \in 1..MaxEntries}

\* ----------------------------------------------------------- scroll effects
NavbarScrolledAtInclusive(y) == y >= NavbarThreshold

NavbarScrolledAt(y) == y > NavbarThreshold
ScrollTopVisibleAt(y) == y > ScrollTopThreshold

\* window.addEventListener('scroll', ...)
ScrollListeners(f) ==
    IF f = "script.js" THEN {"handleNavbarScroll", "handleScrollTopVisibility"}
    ELSE {"handleScrollEffects"}

TouchesNavbarOnly(w) ==
    CASE w = "handleNavbarScroll" -> <<"navbar">>
      [] w = "handleScrollTopVisibility" -> <<"scrollTop">>
      [] w = "handleScrollEffects" -> <<"navbar">>
      [] OTHER -> <<>>

\* the elements a throttled scroll handler touches, in the order it does
Touches(w) ==
    CASE w = "handleNavbarScroll" -> <<"navbar">>
      [] w = "handleScrollTopVisibility" -> <<"scrollTop">>
      [] w = "handleScrollEffects" -> <<"navbar", "scrollTop">>
      [] OTHER -> <<>>

\* the handler reaches its update of element id (no earlier one is null)
Updates(w, id, els) ==
    \E i \in 1..Len(Touches(w)) :
        /\ Touches(w)[i] = id
        /\ \A j \in 1..i : Touches(w)[j] \in els

\* the handler stops at a null element
ScrollHandlerThrows(w, els) == \E i \in 1..Len(Touches(w)) : Touches(w)[i] \notin els

\* a scroll event reaches the listeners ls: wrapper w runs its handler
Called(ls, w) == w \in ls /\ ThrottleAccepts(inThrottle[w])

\* some handler that runs reaches its update of element id
Executes(ls, id) == \E w \in ThrottledFns : Called(ls, w) /\ Updates(w, id, present)

\* the classes c of a page after the event at offset y
ClassesAfter(ls, c, y) ==
    [navbarScrolled |-> IF Executes(ls, "navbar") THEN NavbarScrolledAt(y)
                        ELSE c.navbarScrolled,
     scrollTopVisible |-> IF Executes(ls, "scrollTop") THEN ScrollTopVisibleAt(y)
                          ELSE c.scrollTopVisible]

\* the closure state of every wrapper after the event
FlagsAfterScroll(ls) ==
    [w \in ThrottledFns |->
        IF Called(ls, w)
        THEN ThrottleFlagAfter(inThrottle[w], ScrollHandlerThrows(w, present))
        ELSE inThrottle[w]]

CooldownsAfterScroll(ls) ==
    [w \in ThrottledFns |->
        IF Called(ls, w)
        THEN ThrottleCooldownsAfter(cooldowns[w], ScrollHandlerThrows(w, present))
        ELSE cooldowns[w]]

ScrollErrors(ls) ==
    {TypeError(w) : w \in {v \in ThrottledFns :
                              Called(ls, v) /\ ScrollHandlerThrows(v, present)}}

\* ------------------------------------------------------------ contact form
ButtonAtRest == [label |-> "original", disabled |-> FALSE]

\* handleFormSubmit up to its setTimeout: the loading state
ButtonOnSubmit(b) == [label |-> "sending", disabled |-> TRUE]

\* const originalText = submitButton.innerHTML
OriginalText(b) == b.label

\* the 1000 ms callback
ButtonOnSent(b) == [b EXCEPT !.label = "sent"]

\* the 2000 ms callback
ButtonOnRestore(b, originalText) == [label |-> originalText, disabled |-> FALSE]

\* -------------------------------------------------------------------- init
\* The state when the script has been evaluated (the wrappers and the
\* element cache exist) and init() has not run yet.
Init ==
    /\ timeout = 0
    /\ dbTimers = {}
    /\ dbTrace = <<>>
    /\ inThrottle = [w \in ThrottledFns |-> "undefined"]
    /\ cooldowns = [w \in ThrottledFns |-> 0]
    /\ thTrace = <<>>
    /\ file \in Files
    /\ present \in Pages
    /\ initialized = FALSE
    /\ pageYOffset = 0
    /\ lastScrollTop = 0
    /\ navbarScrolled = FALSE
    /\ scrollTopVisible = FALSE
    /\ twin = [navbarScrolled |-> FALSE, scrollTopVisible |-> FALSE,
               accepted |-> {}, inSync |-> TRUE]
    /\ button = ButtonAtRest
    /\ feedback = [sending |-> <<>>, sent |-> <<>>]
    /\ menu \in {MenuClosed, [MenuClosed EXCEPT !.ariaExpanded = "unset"]}
    /\ style = [e \in AnimatedElements |-> Unstyled]
    /\ observed = {}
    /\ yearText = ""
    /\ lastEvent = [type |-> "load"]
    /\ scrollRequest = <<>>
    /\ defaultPrevented = FALSE
    /\ raised = {}

\* the wrappers alone, on the page that has every element
InitWrappers == Init /\ present = ElementIds

\* init(): the year, the listeners, the reveal styles and observation
InitApp ==
    /\ ~initialized
    /\ initialized' = TRUE
    /\ yearText' = IF "year" \in present THEN "getFullYear" ELSE yearText
    /\ style' = [e \in AnimatedElements |-> Pending]
    /\ observed' = AnimatedElements
    /\ lastEvent' = [type |-> "DOMContentLoaded"]
    /\ scrollRequest' = <<>>
    /\ defaultPrevented' = FALSE
    /\ raised' = {}
    /\ UNCHANGED <<debounceVars, throttleVars, thTrace, file, present,
                   scrollVars, formVars, menu>>

\* ----------------------------------------------------------- reveal events
\* the animateOnScroll callback runs on a batch of entries
IntersectionCallback(entries) ==
    /\ initialized
    /\ entries \in Batches(observed)
    /\ LET r == RevealEntries(style, observed, entries)
       IN /\ style' = r.style
          /\ observed' = r.observed
    /\ lastEvent' = [type |-> "intersection", entries |-> entries]
    /\ scrollRequest' = <<>>
    /\ defaultPrevented' = FALSE
    /\ raised' = {}
    /\ UNCHANGED <<debounceVars, throttleVars, thTrace, file, present,
                   initialized, scrollVars, formVars, menu, yearText>>

\* ----------------------------------------------------------- scroll events
\* the viewport is at offset y and a scroll event is dispatched: every
\* scroll listener of the file runs, an error in one does not stop the next
ScrollEvent(y) ==
    /\ initialized
    /\ \A w \in ScrollListeners(file) : cooldowns[w] < MaxCooldowns
    /\ LET ls == ScrollListeners(file)
           c == ClassesAfter(ls, [navbarScrolled |-> navbarScrolled,
                                  scrollTopVisible |-> scrollTopVisible], y)
       IN /\ pageYOffset' = y
          /\ navbarScrolled' = c.navbarScrolled
          /\ scrollTopVisible' = c.scrollTopVisible
          /\ lastScrollTop' = IF /\ Called(ls, "handleNavbarScroll")
                                 /\ ~ScrollHandlerThrows("handleNavbarScroll", present)
                              THEN y ELSE lastScrollTop
          /\ inThrottle' = FlagsAfterScroll(ls)
          /\ cooldowns' = CooldownsAfterScroll(ls)
          /\ raised' = ScrollErrors(ls)
    /\ lastEvent' = [type |-> "scroll", offset |-> y]
    /\ scrollRequest' = <<>>
    /\ defaultPrevented' = FALSE
    /\ UNCHANGED <<debounceVars, thTrace, file, present, initialized, twin,
                   formVars, menu, revealVars, yearText>>

\* ------------------------------------------------- the two variants together
\* the scroll listeners of the two pages
SplitListeners == ScrollListeners("script.js")
CombinedListeners == ScrollListeners("part_000")

\* A script.js page and a part_000 page with every element present are
\* given the same scroll events.
InitTwin ==
    /\ Init
    /\ file = "script.js"
    /\ present = ElementIds

\* one scroll event, at the same offset, dispatched on both pages
TwinScrollEvent(y) ==
    /\ initialized
    /\ \A w \in SplitListeners \cup CombinedListeners : cooldowns[w] < MaxCooldowns
    /\ LET both == SplitListeners \cup CombinedListeners
           c == ClassesAfter(SplitListeners,
                             [navbarScrolled |-> navbarScrolled,
                              scrollTopVisible |-> scrollTopVisible], y)
           d == ClassesAfter(CombinedListeners, twin, y)
       IN /\ pageYOffset' = y
          /\ navbarScrolled' = c.navbarScrolled
          /\ scrollTopVisible' = c.scrollTopVisible
          /\ lastScrollTop' = IF Called(SplitListeners, "handleNavbarScroll")
                              THEN y ELSE lastScrollTop
          /\ twin' = [navbarScrolled |-> d.navbarScrolled,
                      scrollTopVisible |-> d.scrollTopVisible,
                      accepted |-> {w \in both : Called(both, w)},
                      inSync |-> /\ twin.inSync
                                 /\ ThrottleAccepts(inThrottle["handleNavbarScroll"])
                                      <=> ThrottleAccepts(inThrottle["handleScrollTopVisibility"])]
          /\ inThrottle' = FlagsAfterScroll(both)
          /\ cooldowns' = CooldownsAfterScroll(both)
          /\ raised' = ScrollErrors(both)
    /\ lastEvent' = [type |-> "scroll", offset |-> y]
    /\ scrollRequest' = <<>>
    /\ defaultPrevented' = FALSE
    /\ UNCHANGED <<debounceVars, thTrace, file, present, initialized,
                   formVars, menu, revealVars, yearText>>

\* The timers that come due together: in each page the first setTimeout of
\* the dispatch is the one of its first scroll listener, so the timer of
\* handleScrollEffects fires with the timer of handleNavbarScroll; the
\* timer of handleScrollTopVisibility is a task of its own.
TwinTimers == {{"handleNavbarScroll", "handleScrollEffects"},
               {"handleScrollTopVisibility"}}

TwinCooldownExpires(ws) ==
    /\ \A w \in ws : cooldowns[w] > 0
    /\ cooldowns' = [w \in ThrottledFns |->
                        IF w \in ws THEN cooldowns[w] - 1 ELSE cooldowns[w]]
    /\ inThrottle' = [w \in ThrottledFns |->
                         IF w \in ws THEN ThrottleFlagOnTimer ELSE inThrottle[w]]
    /\ UNCHANGED <<debounceVars, thTrace, pageVars>>

\* ------------------------------------------------------------- form events
\* script.js attaches handleFormSubmit when the form exists; part_000 has
\* no submit listener
HasSubmitListener(f, els) == f = "script.js" /\ "contact-form" \in els

\* a submit event on the contact form
Submit ==
    /\ initialized
    /\ "contact-form" \in present
    /\ Len(feedback.sending) + Len(feedback.sent) < MaxSubmits
    /\ IF HasSubmitListener(file, present)
       THEN /\ button' = ButtonOnSubmit(button)
            /\ feedback' = [feedback EXCEPT
                                !.sending = Append(@, OriginalText(button))]
       ELSE UNCHANGED formVars
    /\ lastEvent' = [type |-> "submit"]
    /\ scrollRequest' = <<>>
    /\ defaultPrevented' = FALSE
    /\ raised' = {}
    /\ UNCHANGED <<debounceVars, throttleVars, thTrace, file, present,
                   initialized, scrollVars, menu, revealVars, yearText>>

\* the 1000 ms timer of the oldest submit that still waits for it
FeedbackTimerFires ==
    /\ feedback.sending # <<>>
    /\ button' = ButtonOnSent(button)
    /\ feedback' = [sending |-> Tail(feedback.sending),
                    sent |-> Append(feedback.sent, Head(feedback.sending))]
    /\ UNCHANGED <<debounceVars, throttleVars, thTrace, file, present,
                   initialized, scrollVars, menu, revealVars, yearText,
                   eventVars>>

\* the 2000 ms timer set by the oldest 1000 ms callback
RestoreTimerFires ==
    /\ feedback.sent # <<>>
    /\ button' = ButtonOnRestore(button, Head(feedback.sent))
    /\ feedback' = [feedback EXCEPT !.sent = Tail(@)]
    /\ UNCHANGED <<debounceVars, throttleVars, thTrace, file, present,
                   initialized, scrollVars, menu, revealVars, yearText,
                   eventVars>>

\* ------------------------------------------------------------- menu events
NotMenu == <<debounceVars, throttleVars, thTrace, file, present, initialized,
             scrollVars, formVars, revealVars, yearText>>

\* a click on the hamburger: its listener, then the document's
HamburgerClick ==
    /\ initialized
    /\ "hamburger" \in present
    /\ LET t == ToggleMobileMenu(menu, present)
           d == DocumentClickListener(file, t.menu, present, FALSE, TRUE)
       IN /\ menu' = d.menu
          /\ raised' = (IF t.threw THEN {TypeError("toggleMobileMenu")} ELSE {})
                       \cup DocumentClickErrors(d)
    /\ lastEvent' = [type |-> "click", on |-> "hamburger", before |-> menu]
    /\ scrollRequest' = <<>>
    /\ defaultPrevented' = FALSE
    /\ UNCHANGED NotMenu

KeyDown(key) ==
    /\ initialized
    /\ LET k == HandleKeyboardNavigation(file, key, menu, present)
       IN /\ menu' = k.menu
          /\ raised' = IF k.threw THEN {TypeError("keydown")} ELSE {}
    /\ lastEvent' = [type |-> "keydown", key |-> key, before |-> menu]
    /\ scrollRequest' = <<>>
    /\ defaultPrevented' = FALSE
    /\ UNCHANGED NotMenu

\* a click on something that has no listener of its own
DocumentClick(inMenu) ==
    /\ initialized
    /\ inMenu => "nav-menu" \in present
    /\ LET d == DocumentClickListener(file, menu, present, inMenu, FALSE)
       IN /\ menu' = d.menu
          /\ raised' = DocumentClickErrors(d)
    /\ lastEvent' = [type |-> "click", on |-> "page", inMenu |-> inMenu,
                     before |-> menu]
    /\ scrollRequest' = <<>>
    /\ defaultPrevented' = FALSE
    /\ UNCHANGED NotMenu

\* a click on the scroll-top control: scrollToTop, then the document's listener
ScrollTopClick ==
    /\ initialized
    /\ "scrollTop" \in present
    /\ LET d == DocumentClickListener(file, menu, present, FALSE, FALSE)
       IN /\ menu' = d.menu
          /\ raised' = DocumentClickErrors(d)
    /\ lastEvent' = [type |-> "click", on |-> "scrollTop", before |-> menu]
    /\ scrollRequest' = <<0>>
    /\ defaultPrevented' = FALSE
    /\ UNCHANGED NotMenu

\* a click on a link: smoothScrollToSection where it is attached, then the
\* document's listener.  target is <<offsetTop>> of the element the href
\* selects, or <<>>.
AnchorClick(navLink, href, inMenu, target, navbarHeight) ==
    /\ initialized
    /\ inMenu => "nav-menu" \in present
    /\ (href = "#about") = (target # <<>>)
    /\ LET s == IF HasScrollListener(file, navLink, href)
                THEN SmoothScrollToSection(file, href,
                         IF target = <<>> THEN 0 ELSE target[1],
                         navbarHeight, menu, present)
                ELSE [menu |-> menu, scroll |-> <<>>, prevented |-> FALSE,
                      errors |-> {}]
           d == DocumentClickListener(file, s.menu, present, inMenu, FALSE)
       IN /\ menu' = d.menu
          /\ scrollRequest' = s.scroll
          /\ defaultPrevented' = s.prevented
          /\ raised' = s.errors \cup DocumentClickErrors(d)
    /\ lastEvent' = [type |-> "click", on |-> "link", navLink |-> navLink,
                     href |-> href, inMenu |-> inMenu, target |-> target,
                     navbarHeight |-> navbarHeight, before |-> menu]
    /\ UNCHANGED NotMenu

\* ---------------------------------------------------------- specifications
\* The wrappers, the reveal observer, the scroll effects and the menu write
\* disjoint variables, so each is explored on its own; Spec is their
\* interleaving.
NextDebounce ==
    \/ \E ctx \in Ctxs, a \in Args : DebounceCall(ctx, a)
    \/ \E t \in dbTimers : DebounceTimerFires(t)

NextThrottle ==
    \/ \E ctx \in Ctxs, a \in Args, throws \in BOOLEAN : ThrottleCall(ctx, a, throws)
    \/ CooldownExpires("fn")

\* a timer that is due is run: the event loop does not starve the timer queue
FairThrottle == WF_vars(CooldownExpires("fn"))

NextReveal ==
    \/ InitApp
    \/ \E entries \in Batches(observed) : IntersectionCallback(entries)

NextScroll ==
    \/ InitApp
    \/ \E y \in Offsets : ScrollEvent(y)
    \/ \E w \in ScrollListeners(file) : CooldownExpires(w)

NextTwin ==
    \/ InitApp
    \/ \E y \in Offsets : TwinScrollEvent(y)
    \/ \E ws \in TwinTimers : TwinCooldownExpires(ws)

NextForm ==
    \/ InitApp
    \/ Submit
    \/ FeedbackTimerFires
    \/ RestoreTimerFires

NextMenu ==
    \/ InitApp
    \/ HamburgerClick
    \/ \E key \in Keys : KeyDown(key)
    \/ \E inMenu \in BOOLEAN : DocumentClick(inMenu)
    \/ ScrollTopClick
    \/ \E navLink \in BOOLEAN, href \in Hrefs, inMenu \in BOOLEAN,
          target \in {<<>>} \cup {<<t>> : t \in OffsetTops},
          navbarHeight \in NavbarHeights :
            AnchorClick(navLink, href, inMenu, target, navbarHeight)

Next == \/ NextDebounce \/ NextThrottle \/ NextReveal \/ NextScroll
        \/ NextForm \/ NextMenu

SpecDebounce == InitWrappers /\ [][NextDebounce]_vars
SpecThrottle == InitWrappers /\ [][NextThrottle]_vars
SpecThrottleFair == SpecThrottle /\ FairThrottle
SpecReveal == Init /\ [][NextReveal]_vars
SpecScroll == Init /\ [][NextScroll]_vars
SpecTwin == InitTwin /\ [][NextTwin]_vars
SpecForm == Init /\ [][NextForm]_vars
SpecMenu == Init /\ [][NextMenu]_vars
Spec == Init /\ [][Next]_vars

\* ================================================================== claims
IsPending(st) == st.opacity = "0" /\ st.transform = "translateY(30px)"
IsRevealed(st) == st.opacity = "1" /\ st.transform = "translateY(0)"
Quiescent == \A w \in ThrottledFns : cooldowns[w] = 0
MenuElements == {"hamburger", "nav-menu"}
NeitherActive(m) == ~m.hamburgerActive /\ ~m.navMenuActive
LinkClicked == lastEvent.type = "click" /\ lastEvent.on = "link"

\* C1: in a burst of debounced calls (each call arrives while the timer of
\* the previous one is pending) fn is not invoked before the last call; it
\* is invoked exactly once, after the last call and with that call's
\* arguments: every fn invocation directly follows the call whose arguments
\* it gets, at most one timer is pending, the trace ends with a call while a
\* timer is pending and with the invocation once it has fired.
C1_DebounceBurst ==
    /\ \A i \in 1..Len(dbTrace) :
          dbTrace[i].ev = "fn" =>
              /\ i > 1
              /\ dbTrace[i - 1].ev = "call"
              /\ dbTrace[i].args = dbTrace[i - 1].args
    /\ Cardinality(dbTimers) <= 1
    /\ dbTimers # {} => Last(dbTrace).ev = "call"
    /\ dbTimers = {} => dbTrace = <<>> \/ Last(dbTrace).ev = "fn"

\* a burst of two calls with different arguments has been answered
C1_Witness ==
    /\ dbTimers = {}
    /\ \E i \in 1..Len(dbTrace) :
          /\ i + 2 <= Len(dbTrace)
          /\ dbTrace[i].ev = "call"
          /\ dbTrace[i + 1].ev = "call"
          /\ dbTrace[i].args # dbTrace[i + 1].args
          /\ dbTrace[i + 2].ev = "fn"

\* call i of the throttled wrapper falls into a cooldown window: an earlier
\* accepted call has set its timer and no timer has fired since
InWindow(i) ==
    \E j \in 1..(i - 1) :
        /\ thTrace[j].ev = "fn"
        /\ ~thTrace[j].threw
        /\ \A k \in (j + 1)..(i - 1) : thTrace[k].ev # "reset"

\* C2: a throttled wrapper invokes fn synchronously on its first call and
\* on the first call after the cooldown timer has fired; a call inside a
\* cooldown window invokes nothing; fn runs only inside a call.
C2_ThrottleWindow ==
    \A i \in 1..Len(thTrace) :
        /\ (thTrace[i].ev = "call" /\ ~InWindow(i)) =>
               /\ i < Len(thTrace)
               /\ thTrace[i + 1].ev = "fn"
               /\ thTrace[i + 1].args = thTrace[i].args
        /\ (thTrace[i].ev = "call" /\ InWindow(i)) =>
               (i = Len(thTrace) \/ thTrace[i + 1].ev # "fn")
        /\ thTrace[i].ev = "fn" => (i > 1 /\ thTrace[i - 1].ev = "call")

\* accepted, dropped, timer fired, accepted again
C2_Witness ==
    /\ Len(thTrace) = 6
    /\ thTrace[1].ev = "call" /\ thTrace[2].ev = "fn" /\ ~thTrace[2].threw
    /\ thTrace[3].ev = "call"
    /\ thTrace[4].ev = "reset"
    /\ thTrace[5].ev = "call" /\ thTrace[6].ev = "fn"

\* C3: both wrappers invoke fn with the arguments and the `this` of the
\* wrapper call that led to the invocation.
C3_ContextAndArguments ==
    /\ \A i \in 1..Len(dbTrace) :
          dbTrace[i].ev = "fn" =>
              /\ i > 1
              /\ dbTrace[i].args = dbTrace[i - 1].args
              /\ dbTrace[i].this = dbTrace[i - 1].this
    /\ \A i \in 1..Len(thTrace) :
          thTrace[i].ev = "fn" =>
              /\ i > 1
              /\ thTrace[i].args = thTrace[i - 1].args
              /\ thTrace[i].this = thTrace[i - 1].this

\* C4: init() leaves every animated element pending; afterwards an element's
\* style changes only from pending to revealed, a revealed element keeps its
\* style, and an element that got an intersecting entry is revealed when the
\* callback returns, whatever entries followed in the batch.
C4_RevealOnce ==
    [][ /\ (~initialized /\ initialized') =>
               \A e \in AnimatedElements : IsPending(style'[e])
        /\ \A e \in AnimatedElements :
               /\ IsRevealed(style[e]) => style'[e] = style[e]
               /\ (initialized /\ style'[e] # style[e]) =>
                      (IsPending(style[e]) /\ IsRevealed(style'[e]))
        /\ lastEvent'.type = "intersection" =>
               \A i \in 1..Len(lastEvent'.entries) :
                   lastEvent'.entries[i].isIntersecting =>
                       IsRevealed(style'[lastEvent'.entries[i].target])
      ]_vars

\* an element was revealed and then left the viewport in the same batch,
\* while another one is still pending
C4_Witness ==
    /\ lastEvent.type = "intersection"
    /\ Len(lastEvent.entries) = 2
    /\ lastEvent.entries[1].isIntersecting
    /\ ~lastEvent.entries[2].isIntersecting
    /\ lastEvent.entries[1].target = lastEvent.entries[2].target
    /\ IsRevealed(style[lastEvent.entries[1].target])
    /\ \E e \in AnimatedElements : IsPending(style[e])

\* C5: no element is observed before init(); afterwards an element is
\* observed iff it is pending, and an element whose entries in the last
\* batch were all non-intersecting is still pending and observed.
C5_ObservedIffPending ==
    /\ ~initialized => observed = {}
    /\ initialized =>
           \A e \in AnimatedElements : (e \in observed) <=> IsPending(style[e])
    /\ lastEvent.type = "intersection" =>
           \A i \in 1..Len(lastEvent.entries) :
               LET e == lastEvent.entries[i].target
               IN (\A j \in 1..Len(lastEvent.entries) :
                       lastEvent.entries[j].target = e =>
                           ~lastEvent.entries[j].isIntersecting)
                  => (e \in observed /\ IsPending(style[e]))

\* one batch revealed and unobserved an element and left another one, which
\* was not intersecting, pending and observed
C5_Witness ==
    /\ lastEvent.type = "intersection"
    /\ Len(lastEvent.entries) = 2
    /\ \E i, j \in 1..2 :
          /\ lastEvent.entries[i].isIntersecting
          /\ ~lastEvent.entries[j].isIntersecting
          /\ lastEvent.entries[i].target # lastEvent.entries[j].target
          /\ lastEvent.entries[i].target \notin observed
          /\ lastEvent.entries[j].target \in observed

\* C6: whatever the timing of the scroll events, once the offset is back at
\* 0, its scroll event has been dispatched and every timer has fired, the
\* navbar does not carry 'scrolled'.
C6_NavbarFollowsOffset ==
    (/\ initialized
     /\ "navbar" \in present
     /\ "scrollTop" \in present
     /\ Quiescent
     /\ pageYOffset = 0) => ~navbarScrolled

\* C7: whatever the timing of the scroll events, once the offset is back
\* below 300, its scroll event has been dispatched and every timer has
\* fired, the scroll-top control does not carry 'visible'.
C7_ScrollTopFollowsOffset ==
    (/\ initialized
     /\ "navbar" \in present
     /\ "scrollTop" \in present
     /\ Quiescent
     /\ pageYOffset < ScrollTopThreshold) => ~scrollTopVisible

\* C8: on a page with hamburger and nav-menu, a hamburger click on the
\* closed menu opens it (both 'active', aria-expanded "true", body overflow
\* 'hidden'); an Escape keydown on the open menu closes it (neither
\* 'active', aria-expanded "false", overflow ''); an Escape keydown on the
\* closed menu leaves it closed.
C8_MenuScenario ==
    MenuElements \subseteq present =>
        /\ (/\ lastEvent.type = "click"
            /\ lastEvent.on = "hamburger"
            /\ NeitherActive(lastEvent.before)) => menu = MenuOpen
        /\ (/\ lastEvent.type = "keydown"
            /\ lastEvent.key = "Escape"
            /\ lastEvent.before = MenuOpen) => menu = MenuClosed
        /\ (/\ lastEvent.type = "keydown"
            /\ lastEvent.key = "Escape"
            /\ NeitherActive(lastEvent.before)) => NeitherActive(menu)

\* Escape has closed the menu a hamburger click had opened
C8_Witness ==
    /\ lastEvent.type = "keydown"
    /\ lastEvent.key = "Escape"
    /\ lastEvent.before = MenuOpen
    /\ menu = MenuClosed

\* the link clicked last has smoothScrollToSection attached and an href
\* that starts with '#'
HashLinkClicked ==
    /\ LinkClicked
    /\ StartsWithHash(lastEvent.href)
    /\ HasScrollListener(file, lastEvent.navLink, lastEvent.href)

\* the page has what the scroll position and the menu are made of
ScrollTargetsPresent == {"navbar", "hamburger", "nav-menu"} \subseteq present

\* C9 as stated: a click on such a link whose target exists requests a
\* scroll to target.offsetTop - navbar.offsetHeight and leaves the menu
\* closed; when the target does not exist no scroll is requested and the
\* menu is as the click found it.  (The bare '#', which selects nothing and
\* makes querySelector raise, is left out here: the claim fails without it.)
C9_AnchorClickAsStated ==
    (HashLinkClicked /\ ScrollTargetsPresent /\ lastEvent.href # "#") =>
        IF lastEvent.target # <<>>
        THEN /\ scrollRequest = <<lastEvent.target[1] - lastEvent.navbarHeight>>
             /\ menu = MenuClosed
        ELSE /\ scrollRequest = <<>>
             /\ menu = lastEvent.before

\* the click reaches the document's listener of script.js, which closes an
\* open menu when the link lies outside nav-menu
ClosedByDocument ==
    file = "script.js" /\ lastEvent.before.navMenuActive /\ ~lastEvent.inMenu

\* C9 amended: as stated, except that when the target does not exist the
\* menu is as the click found it unless the document's click listener of
\* script.js closes it (menu open, link outside nav-menu).
C9_AnchorClick ==
    /\ (HashLinkClicked /\ ScrollTargetsPresent /\ lastEvent.target # <<>>) =>
           /\ scrollRequest = <<lastEvent.target[1] - lastEvent.navbarHeight>>
           /\ menu = MenuClosed
    /\ (HashLinkClicked /\ lastEvent.target = <<>>) =>
           /\ scrollRequest = <<>>
           /\ menu = IF ClosedByDocument THEN MenuClosed ELSE lastEvent.before

\* a click on a link in the open menu has scrolled to its section and
\* closed the menu
C9_Witness ==
    /\ HashLinkClicked
    /\ lastEvent.before = MenuOpen
    /\ lastEvent.inMenu
    /\ lastEvent.target = <<400>>
    /\ lastEvent.navbarHeight = 70
    /\ scrollRequest = <<330>>
    /\ menu = MenuClosed

\* C10: no listener raises a TypeError for an absent element.
C10_MissingElementTolerated ==
    \A r \in raised : r.error # "TypeError"

\* the accepted calls of the throttled wrapper and the invocations of fn
AcceptedCalls == {i \in 1..Len(thTrace) : thTrace[i].ev = "call" /\ ~InWindow(i)}
FnInvocations == {i \in 1..Len(thTrace) : thTrace[i].ev = "fn"}

\* C11: a throttled wrapper queues nothing: fn runs only inside an accepted
\* call, the expiry of a cooldown timer is never followed by an invocation
\* that no call made, and fn has run as often as calls were accepted.
C11_NoQueuedCall ==
    /\ \A i \in FnInvocations : (i - 1) \in AcceptedCalls
    /\ \A i \in 1..Len(thTrace) :
          thTrace[i].ev = "reset" =>
              (i = Len(thTrace) \/ thTrace[i + 1].ev = "call")
    /\ Cardinality(FnInvocations) = Cardinality(AcceptedCalls)

\* a call was dropped, the cooldown timer has fired, and nothing ran for it
C11_Witness ==
    /\ Len(thTrace) = 4
    /\ thTrace[3].ev = "call"
    /\ thTrace[3].args # thTrace[1].args
    /\ thTrace[4].ev = "reset"
    /\ Cardinality(FnInvocations) = 1

\* C15: a throttled wrapper is never blocked for good: whenever it is in
\* cooldown a reset timer is pending, so with the timer queue served it
\* accepts calls again; a call whose fn throws leaves it out of cooldown.
C15_NeverBlocked ==
    /\ [](inThrottle["fn"] = "true" => cooldowns["fn"] > 0)
    /\ (inThrottle["fn"] = "true") ~> ThrottleAccepts(inThrottle["fn"])
    /\ [](\A i \in 1..Len(thTrace) :
             (i = Len(thTrace) /\ thTrace[i].ev = "fn" /\ thTrace[i].threw) =>
                 ThrottleAccepts(inThrottle["fn"]))

\* fn threw in one accepted call; a later accepted call started a cooldown
\* whose timer is pending
C15_Witness ==
    /\ \E i \in 1..Len(thTrace) : thTrace[i].ev = "fn" /\ thTrace[i].threw
    /\ thTrace[Len(thTrace)].ev = "fn"
    /\ ~thTrace[Len(thTrace)].threw
    /\ inThrottle["fn"] = "true"
    /\ cooldowns["fn"] = 1

\* C14: on a page with hamburger and nav-menu, after any sequence of
\* hamburger clicks, keydowns, document clicks and link clicks, hamburger
\* carries 'active' iff nav-menu does, aria-expanded is "true" iff the menu
\* is active, and body overflow is 'hidden' iff the menu is active.
C14_MenuConsistent ==
    MenuElements \subseteq present =>
        /\ menu.hamburgerActive <=> menu.navMenuActive
        /\ (menu.ariaExpanded = "true") <=> menu.navMenuActive
        /\ (menu.bodyOverflow = "hidden") <=> menu.navMenuActive

\* a click outside the open menu has closed it (script.js)
C14_Witness ==
    /\ lastEvent.type = "click"
    /\ lastEvent.on = "page"
    /\ ~lastEvent.inMenu
    /\ lastEvent.before = MenuOpen
    /\ menu = MenuClosed

\* C18: a click on a .nav-link whose href does not start with '#' keeps its
\* default action (preventDefault is not called), requests no scroll, and
\* smoothScrollToSection leaves the menu as it found it (the document's
\* listener of script.js may still close it), in both files.
C18_DefaultKept ==
    (LinkClicked /\ lastEvent.navLink /\ ~StartsWithHash(lastEvent.href)) =>
        /\ ~defaultPrevented
        /\ scrollRequest = <<>>
        /\ menu = IF ClosedByDocument THEN MenuClosed ELSE lastEvent.before

\* C12: a scroll tick body that runs at offset y leaves the navbar with
\* 'scrolled' iff y > 50 and the scroll-top control with 'visible' iff
\* y > 300, whatever the classes were before and whichever handler holds
\* the predicate; a tick at the offset whose classes are already in place
\* changes neither class.
C12_ScrollPredicates ==
    [][\A y \in Offsets : ScrollEvent(y) =>
        /\ Executes(ScrollListeners(file), "navbar")
              => (navbarScrolled' <=> y > NavbarThreshold)
        /\ Executes(ScrollListeners(file), "scrollTop")
              => (scrollTopVisible' <=> y > ScrollTopThreshold)
        /\ (/\ navbarScrolled <=> y > NavbarThreshold
            /\ scrollTopVisible <=> y > ScrollTopThreshold)
              => UNCHANGED <<navbarScrolled, scrollTopVisible>>]_vars

C12_Witness ==
    /\ present = ElementIds
    /\ lastEvent.type = "scroll"
    /\ lastEvent.offset = 300
    /\ lastScrollTop = 300
    /\ inThrottle["handleScrollTopVisibility"] = "true"
    /\ navbarScrolled
    /\ ~scrollTopVisible

\* C13: the flag and the timer of a throttle wrapper change only in a
\* scroll event in which that wrapper accepts its own call, where the new
\* flag is decided by the wrapper's own flag and handler alone, or when its
\* own timer fires, which changes no other wrapper's flag or timer.
C13_WrapperIsolation ==
    [][\A w \in ThrottledFns :
        /\ (\E y \in Offsets : ScrollEvent(y)) =>
              IF w \in ScrollListeners(file) /\ inThrottle[w] # "true"
              THEN inThrottle'[w] = IF ScrollHandlerThrows(w, present)
                                    THEN inThrottle[w] ELSE "true"
              ELSE inThrottle'[w] = inThrottle[w] /\ cooldowns'[w] = cooldowns[w]
        /\ (/\ ~\E y \in Offsets : ScrollEvent(y)
            /\ inThrottle'[w] # inThrottle[w] \/ cooldowns'[w] # cooldowns[w]) =>
              /\ cooldowns[w] > 0
              /\ cooldowns'[w] = cooldowns[w] - 1
              /\ inThrottle'[w] = "false"
              /\ \A v \in ThrottledFns \ {w} :
                    inThrottle'[v] = inThrottle[v] /\ cooldowns'[v] = cooldowns[v]]_vars

C13_Witness ==
    /\ file = "script.js"
    /\ present = ElementIds
    /\ inThrottle["handleNavbarScroll"] = "false"
    /\ cooldowns["handleNavbarScroll"] = 0
    /\ inThrottle["handleScrollTopVisibility"] = "true"
    /\ cooldowns["handleScrollTopVisibility"] = 1

\* C16 as stated: with all elements present, after every sequence of scroll
\* events and timer firings the page with two throttled handlers and the
\* page with the combined handler carry the same 'scrolled' and 'visible'
\* classes, and every scroll event was accepted by all three wrappers or
\* dropped by all three.
C16_VariantsEquivalent ==
    /\ twin.navbarScrolled <=> navbarScrolled
    /\ twin.scrollTopVisible <=> scrollTopVisible
    /\ twin.accepted \in {{}, SplitListeners \cup CombinedListeners}

\* C16, amended: the same holds as long as no scroll event has been
\* dispatched between the firing of the timer of handleNavbarScroll and the
\* firing of the timer of handleScrollTopVisibility.
C16_EquivalentInSync ==
    twin.inSync =>
        /\ twin.navbarScrolled <=> navbarScrolled
        /\ twin.scrollTopVisible <=> scrollTopVisible
        /\ twin.accepted \in {{}, SplitListeners \cup CombinedListeners}

C16_Witness ==
    /\ twin.inSync
    /\ lastEvent.type = "scroll"
    /\ pageYOffset = 320
    /\ twin.accepted = SplitListeners \cup CombinedListeners
    /\ twin.scrollTopVisible
    /\ scrollTopVisible
    /\ \A w \in twin.accepted : inThrottle[w] = "true" /\ cooldowns[w] = 1

\* C17: whatever submit events the contact form received, overlapping or
\* not, once every feedback timer has fired the submit button is enabled
\* and carries the label it had before the first submit.
C17_ButtonRestored ==
    (/\ initialized
     /\ feedback.sending = <<>>
     /\ feedback.sent = <<>>) => button = ButtonAtRest

====
